---- MODULE Spec2Model ----
(***************************************************************************)
(* The definitions index of the PL/pgSQL language server: workspace load,  *)
(* per-file re-index on save and go-to-definition lookup, as state machine. *)
(* Every `await` of a handler is a point where other handlers may run; the  *)
(* code between two awaits is one atomic step.                              *)
(***************************************************************************)
EXTENDS Integers, Sequences, FiniteSets, TLC

\* ---------------------------------------------------------------- bounds
\* The editor events (opens, saves, definition requests) of one run.
MaxEvents == 3

\* The statements of a file handed to the extractors.
MaxStmts == 2

\* ------------------------------------------------------- the environment
\* JavaScript's undefined (an absent optional field, a missing folder).
undefined == "<undefined>"

RootA == "file:///A"
RootB == "file:///B"
RootC == "file:///C"
Roots == {RootA, RootB, RootC}

A_t1 == "file:///A/defs/t1.sql"
A_t2 == "file:///A/defs/t2.sql"
A_f  == "file:///A/funcs/f.sql"
B_t1 == "file:///B/defs/t1.sql"
B_t2 == "file:///B/defs/t2.sql"
C_t1 == "file:///C/defs/t1.sql"
X_s  == "file:///X/scratch.sql"
Files == {A_t1, A_t2, A_f, B_t1, B_t2, C_t1, X_s}

\* The documents the editor opens and saves.
DocUris == {A_t1, A_f, B_t1, X_s}

\* File texts.  Each stands for a text the external parser maps to the
\* statement list given by parseQuery below.
SqlOrders   == "CREATE TABLE public.orders (id int);"
SqlOrdersFn == "CREATE TABLE public.orders (id int); CREATE FUNCTION public.total() ...;"
SqlType     == "CREATE TYPE orders AS (id int); CREATE TABLE items (id int);"
SqlBroken   == "CREATE TABEL public.orders"
SqlNothing  == "-- no statement"
SqlDisabled == "/* plpgsql-language-server:disable */ CREATE TABLE public.hidden (id int);"
Unreadable  == "<EACCES>"
Texts == {SqlOrders, SqlOrdersFn, SqlType, SqlBroken, SqlNothing, SqlDisabled}

\* The documents the editor saves and the texts it writes.
SaveUris == {A_t1, B_t1, X_s}
SaveTexts(uri) ==
    CASE uri = A_t1 -> {SqlOrders, SqlType, SqlBroken, SqlDisabled}
      [] uri = B_t1 -> {SqlType}
      [] OTHER -> {SqlOrders}

\* The documents a definition request is made in, and the words it can have
\* under the cursor.
DefinitionUris == {A_f, B_t1}
Words == {"orders", "public.orders"}

\* ------------------------------------------------------------ statements
Stmt(kind, schemaname, relname, funcname) ==
    [kind |-> kind, schemaname |-> schemaname, relname |-> relname,
     funcname |-> funcname]

CreateStmt(schemaname, relname) ==
    Stmt("CreateStmt", schemaname, relname, <<>>)

CompositeTypeStmt(schemaname, relname) ==
    Stmt("CompositeTypeStmt", schemaname, relname, <<>>)

CreateFunctionStmt(funcname) ==
    Stmt("CreateFunctionStmt", undefined, undefined, funcname)

ViewStmt(schemaname, relname) ==
    Stmt("ViewStmt", schemaname, relname, <<>>)

\* A trigger on table relname that executes funcname.
CreateTrigStmt(trigname, relname, funcname) ==
    [kind |-> "CreateTrigStmt", trigname |-> trigname, relname |-> relname,
     funcname |-> funcname]

IndexStmt(idxname) ==
    [kind |-> "IndexStmt", idxname |-> idxname]

\* The statements the parser can hand over: with and without schema, with a
\* missing relation, with an empty name list, with a name component that is
\* no string, and of a kind that is not in StatementItem.
StmtShapes ==
    { CreateStmt("public", "orders"),
      CreateStmt(undefined, "items"),
      CreateStmt(undefined, undefined),
      ViewStmt("public", "v_orders"),
      CompositeTypeStmt("public", "money_t"),
      CompositeTypeStmt(undefined, "orders"),
      CreateFunctionStmt(<< "f" >>),
      CreateFunctionStmt(<< "public", "f" >>),
      CreateFunctionStmt(<< >>),
      CreateFunctionStmt(<< undefined >>),
      CreateTrigStmt("trg", "orders", << "f" >>),
      IndexStmt("idx"),
      [kind |-> "SelectStmt"] }

\* libpg-query's parseQuery: rejects on a syntax error, otherwise yields a
\* query object whose stmts field may be absent (hasStmts = FALSE).
Query(stmts) == [threw |-> FALSE, hasStmts |-> TRUE, stmts |-> stmts]

parseQuery(text) ==
    CASE text = SqlOrders ->
           Query(<< CreateStmt("public", "orders") >>)
      [] text = SqlOrdersFn ->
           Query(<< CreateStmt("public", "orders"),
                    CreateFunctionStmt(<< "public", "total" >>) >>)
      [] text = SqlType ->
           Query(<< CompositeTypeStmt(undefined, "orders"),
                    CreateStmt(undefined, "items") >>)
      [] text = SqlDisabled ->
           Query(<< CreateStmt("public", "hidden") >>)
      [] text = SqlNothing ->
           [threw |-> FALSE, hasStmts |-> FALSE, stmts |-> << >>]
      [] OTHER ->
           [threw |-> TRUE, hasStmts |-> FALSE, stmts |-> << >>]

disableLanguageServer(text) == text = SqlDisabled

\* validateTextDocument against the database: the diagnostics of a text, one
\* for a text with a syntax error and none for any other.
validateTextDocument(text) ==
    IF text = SqlBroken THEN << "syntax error" >> ELSE << >>

\* ------------------------------------------------------------- settings
getWorkspaceFolder(uri) ==
    CASE uri \in {A_t1, A_t2, A_f} -> RootA
      [] uri \in {B_t1, B_t2} -> RootB
      [] uri \in {C_t1} -> RootC
      [] OTHER -> undefined

\* A pattern glob does not accept: the empty one.
InvalidPattern == ""

definitionFiles(root) ==
    CASE root = RootA -> << "defs/*.sql", "none/*.sql", "funcs/*.sql" >>
      [] root = RootC -> << InvalidPattern, "defs/*.sql" >>
      [] OTHER -> << "defs/*.sql" >>

defaultSchema == "public"

\* glob.sync: the matched files, in order; none for a pattern without match.
\* It throws for a pattern it does not accept.
globThrows(filePattern) == filePattern = InvalidPattern

glob(root, filePattern) ==
    CASE root = RootA /\ filePattern = "defs/*.sql"  -> << A_t1, A_t2 >>
      [] root = RootA /\ filePattern = "funcs/*.sql" -> << A_f >>
      [] root = RootB /\ filePattern = "defs/*.sql"  -> << B_t1, B_t2 >>
      [] root = RootC /\ filePattern = "defs/*.sql"  -> << C_t1 >>
      [] OTHER -> << >>

Range(s) == {s[i] : i \in DOMAIN s}

MatchedFiles(root) ==
    UNION {Range(glob(root, definitionFiles(root)[i])) : i \in DOMAIN definitionFiles(root)}

isDefinitionTarget(uri) ==
    /\ getWorkspaceFolder(uri) # undefined
    /\ uri \in MatchedFiles(getWorkspaceFolder(uri))

\* ------------------------------------------------------------ extraction
LocationLink(resource) ==
    [targetUri |-> resource, targetRange |-> <<0, 0, 0, 0>>]

Candidate(definition, resource) ==
    [definition |-> definition, definitionLink |-> LocationLink(resource)]

\* Array.prototype.flatMap: the concatenation of F over the elements.
flatMap(seq, F(_)) ==
    LET fm[i \in 0..Len(seq)] == IF i = 0 THEN << >> ELSE fm[i - 1] \o F(seq[i])
    IN fm[Len(seq)]

\* An extractor that stops at the first statement it reads no table name
\* from.
getCreateStmts_stops(stmts, resource) ==
    LET named(stmt) == /\ stmt.kind = "CreateStmt"
                       /\ stmt.schemaname # undefined
                       /\ stmt.relname # undefined
        f(stmt) == << Candidate(stmt.schemaname \o "." \o stmt.relname, resource) >>
        first == IF \E i \in DOMAIN stmts : ~named(stmts[i])
                 THEN CHOOSE i \in DOMAIN stmts :
                        ~named(stmts[i]) /\ \A j \in 1..(i - 1) : named(stmts[j])
                 ELSE Len(stmts) + 1
    IN flatMap(SubSeq(stmts, 1, first - 1), f)

getCreateStmts(stmts, resource) ==
    LET f(stmt) ==
          LET schemaname == IF stmt.kind = "CreateStmt" THEN stmt.schemaname ELSE undefined
              relname    == IF stmt.kind = "CreateStmt" THEN stmt.relname ELSE undefined
          IN IF schemaname = undefined \/ relname = undefined
             THEN << >>
             ELSE << Candidate(schemaname \o "." \o relname, resource) >>
    IN flatMap(stmts, f)

getCompositeTypeStmts(stmts, resource) ==
    LET f(stmt) ==
          LET definition == IF stmt.kind = "CompositeTypeStmt" THEN stmt.relname ELSE undefined
          IN IF definition = undefined
             THEN << >>
             ELSE << Candidate(definition, resource) >>
    IN flatMap(stmts, f)

\* An extractor that declares a function once, under its qualified name.
getCreateFunctionStmts_qualified(stmts, resource) ==
    LET f(stmt) ==
          IF stmt.kind # "CreateFunctionStmt" \/ Len(stmt.funcname) = 0
                \/ \E i \in DOMAIN stmt.funcname : stmt.funcname[i] = undefined
          THEN << >>
          ELSE << Candidate(IF Len(stmt.funcname) = 1
                            THEN stmt.funcname[1]
                            ELSE stmt.funcname[1] \o "." \o stmt.funcname[2],
                            resource) >>
    IN flatMap(stmts, f)

getCreateFunctionStmts(stmts, resource) ==
    LET g(funcname) ==
          IF funcname = undefined THEN << >> ELSE << Candidate(funcname, resource) >>
        f(stmt) ==
          LET funcnames == IF stmt.kind = "CreateFunctionStmt" THEN stmt.funcname ELSE << >>
          IN IF stmt.kind # "CreateFunctionStmt" \/ Len(funcnames) = 0
             THEN << >>
             ELSE flatMap(funcnames, g)
    IN flatMap(stmts, f)

\* ------------------------------------------------------------ the index
\* space.definitionMap: the file entries in the order the files were first
\* indexed, each with the candidates last extracted from the file.
hasFileDefinitions(map, uri) ==
    \E i \in DOMAIN map : map[i].resource = uri

fileCandidates(map, uri) ==
    IF hasFileDefinitions(map, uri)
    THEN map[CHOOSE i \in DOMAIN map : map[i].resource = uri].candidates
    ELSE << >>

\* definitionMap.updateCandidates: the file's entry is replaced as a whole.
updateCandidates(map, resource, candidates) ==
    IF hasFileDefinitions(map, resource)
    THEN [i \in DOMAIN map |->
            IF map[i].resource = resource
            THEN [resource |-> resource, candidates |-> candidates]
            ELSE map[i]]
    ELSE Append(map, [resource |-> resource, candidates |-> candidates])

allCandidates(map) ==
    LET f(entry) == entry.candidates IN flatMap(map, f)

\* definitionMap.getDefinitionLinks: the links stored under exactly this name.
linksOf(candidates, word) ==
    LET f(candidate) ==
          IF candidate.definition = word THEN << candidate.definitionLink >> ELSE << >>
    IN flatMap(candidates, f)

lookup(map, word) == linksOf(allCandidates(map), word)

\* ------------------------------------------------------ updateFileDefinition
\* The candidates of a parsed file, in the order the code concatenates them.
createStmts(stmts, resource) ==
    getCreateStmts(stmts, resource)
        \o getCompositeTypeStmts(stmts, resource)
        \o getCreateFunctionStmts(stmts, resource)

\* A re-index that adds the new candidates to the file's earlier ones.
updateFileDefinition_keepsOld(map, resource, query) ==
    IF ~query.hasStmts
    THEN map
    ELSE updateCandidates(map, resource,
                          fileCandidates(map, resource) \o createStmts(query.stmts, resource))

\* updateFileDefinition once parseQuery has resolved to `query`.
updateFileDefinition(map, resource, query) ==
    IF ~query.hasStmts
    THEN map
    ELSE updateCandidates(map, resource, createStmts(query.stmts, resource))

\* getDefinitionLinks: one lookup of the word under the cursor.
getDefinitionLinks(map, documents, uri, word) ==
    IF uri \notin documents
    THEN << >>
    ELSE lookup(map, word)

\* --------------------------------------------------- identifier candidates
\* The tokens a hover request can have under the cursor.
HoverWords == {"Users", "users", "\"Users\"", "public.Users", "Public.users",
               "db.public.users", ""}

\* String.prototype.toLowerCase on the tokens of the model (every other
\* token is in lower case already).
toLowerCase(s) ==
    CASE s = "Users" -> "users"
      [] s = "Public" -> "public"
      [] OTHER -> s

\* String.prototype.split(".") on the tokens of the model.
split(s) ==
    CASE s = "public.orders" -> << "public", "orders" >>
      [] s = "public.Users"  -> << "public", "Users" >>
      [] s = "Public.users"  -> << "Public", "users" >>
      [] s = "public.users"  -> << "public", "users" >>
      [] s = "db.public.users" -> << "db", "public", "users" >>
      [] OTHER -> << s >>

\* A part in double quotes, and the part without one level of them.
isQuoted(s) == s \in {"\"Users\""}

stripQuotes(s) ==
    CASE s = "\"Users\"" -> "Users"
      [] OTHER -> s

RECURSIVE join(_)
join(parts) ==
    IF Len(parts) = 1 THEN parts[1] ELSE parts[1] \o "." \o join(Tail(parts))

\* The candidate forms of a token: the token as written, without its quotes,
\* then the token with its unquoted parts in lower case; none for an empty
\* token.
sanitizeWordCandidates(word) ==
    IF word = ""
    THEN << >>
    ELSE LET parts == split(word)
             exact == [i \in DOMAIN parts |-> stripQuotes(parts[i])]
             folded == [i \in DOMAIN parts |->
                          IF isQuoted(parts[i])
                          THEN stripQuotes(parts[i])
                          ELSE toLowerCase(parts[i])]
         IN IF folded = exact
            THEN << join(exact) >>
            ELSE << join(exact), join(folded) >>

\* The schema and the name of a candidate form; nothing is separated
\* (the code's undefined) when the form is not `name` or `schema.name`.
separateSchemaFromCandidate(candidate) ==
    LET parts == split(candidate)
    IN CASE Len(parts) = 1 ->
              [separated |-> TRUE, schema |-> undefined, candidate |-> parts[1]]
         [] Len(parts) = 2 ->
              [separated |-> TRUE, schema |-> parts[1], candidate |-> parts[2]]
         [] OTHER ->
              [separated |-> FALSE, schema |-> undefined, candidate |-> undefined]

\* The name forms resolve tries, in order: each candidate form, and after a
\* form without schema the same form in the default schema.
candidateForms(word) ==
    LET f(form) ==
          IF separateSchemaFromCandidate(form).schema = undefined
          THEN << form, defaultSchema \o "." \o form >>
          ELSE << form >>
    IN flatMap(sanitizeWordCandidates(word), f)

\* ------------------------------------------------------------------ hover
\* The objects the database can hold, and the kinds in the order getHover
\* asks for them.
Object(kind, schema, name) == [kind |-> kind, schema |-> schema, name |-> name]

Objects ==
    { Object("table", "public", "users"),
      Object("table", "public", "Users"),
      Object("view", "public", "users"),
      Object("function", "other", "users") }

HoverKinds == << "table", "view", "function", "type" >>

\* query*Definitions: the objects of the kind with this name, in the schema
\* named or else in the default schema.
queryDefinitions(catalog, kind, schema, name) ==
    {o \in catalog :
        /\ o.kind = kind
        /\ o.name = name
        /\ o.schema = IF schema = undefined THEN defaultSchema ELSE schema}

NoHover == [found |-> FALSE, contents |-> {}]

makeHover(definitions) ==
    IF definitions = {}
    THEN NoHover
    ELSE [found |-> TRUE, contents |-> definitions]

\* One query sent to the database.
DefinitionsQuery(kind, schema, name) ==
    [kind |-> kind, schema |-> schema, name |-> name]

\* A loop body that asks for every kind and keeps the last hover found.
candidateHover_lastKind(catalog, schema, candidate) ==
    LET hover(k) == makeHover(queryDefinitions(catalog, HoverKinds[k], schema, candidate))
        hits == {k \in DOMAIN HoverKinds : hover(k).found}
    IN [hover |-> IF hits = {}
                  THEN NoHover
                  ELSE hover(CHOOSE k \in hits : \A l \in hits : k >= l),
        queries |-> [k \in DOMAIN HoverKinds |->
                       DefinitionsQuery(HoverKinds[k], schema, candidate)]]

\* The body of getHover's loop for one candidate: the kinds are asked for in
\* order up to the first the database has such an object of, whose hover it
\* is; queries are the queries sent.
candidateHover(catalog, schema, candidate) ==
    LET hover(k) == makeHover(queryDefinitions(catalog, HoverKinds[k], schema, candidate))
        hits == {k \in DOMAIN HoverKinds : hover(k).found}
        last == IF hits = {}
                THEN Len(HoverKinds)
                ELSE CHOOSE k \in hits : \A l \in hits : k <= l
    IN [hover |-> hover(last),
        queries |-> [k \in 1..last |->
                       DefinitionsQuery(HoverKinds[k], schema, candidate)]]

NoHoverResult == [hover |-> NoHover, queries |-> << >>]

RECURSIVE getHoverLoop(_, _)
getHoverLoop(catalog, candidates) ==
    IF candidates = << >>
    THEN NoHoverResult
    ELSE LET schemaCandidate == separateSchemaFromCandidate(Head(candidates))
             body == candidateHover(catalog, schemaCandidate.schema,
                                    schemaCandidate.candidate)
             rest == getHoverLoop(catalog, Tail(candidates))
         IN IF ~schemaCandidate.separated
            THEN rest
            ELSE IF body.hover.found
                 THEN body
                 ELSE [hover |-> rest.hover,
                       queries |-> body.queries \o rest.queries]

\* A hover that gives up after the first candidate form.
getHover_firstCandidate(catalog, word) ==
    LET candidates == IF word = undefined
                      THEN << >>
                      ELSE sanitizeWordCandidates(word)
    IN IF candidates = << >>
       THEN NoHoverResult
       ELSE getHoverLoop(catalog, << Head(candidates) >>)

\* No word under the cursor (the word range is undefined) returns at once.
getHover(catalog, word) ==
    IF word = undefined
    THEN NoHoverResult
    ELSE getHoverLoop(catalog, sanitizeWordCandidates(word))

\* -------------------------------------------------------------- extension
\* A language client: the n-th the extension created, for a workspace folder
\* or, with no folder, for the untitled documents.
LanguageClient(n, workspaceFolder) == [n |-> n, workspaceFolder |-> workspaceFolder]

\* The value of defaultClient before its assignment.
NoClient == LanguageClient(0, undefined)

\* The documents the editor opens: their language, the scheme of their uri
\* and the folder their uri lies in.
TextDocument(languageId, scheme, folder) ==
    [languageId |-> languageId, scheme |-> scheme, folder |-> folder]

TextDocuments ==
    { TextDocument("postgres", "file", RootA),
      TextDocument("postgres", "file", RootB),
      TextDocument("postgres", "file", undefined),
      TextDocument("postgres", "untitled", undefined),
      TextDocument("postgres", "git", RootA),
      TextDocument("plaintext", "file", RootA),
      TextDocument("plaintext", "untitled", undefined) }

\* Workspace.getWorkspaceFolder: the folder of the workspace the uri lies in.
WorkspaceFolderOf(document, workspace) ==
    IF document.folder \in workspace THEN document.folder ELSE undefined

\* Map.prototype.set and Map.prototype.delete on clients.
MapSet(map, key, value) ==
    [k \in DOMAIN map \cup {key} |-> IF k = key THEN value ELSE map[k]]

MapDelete(map, keys) == [k \in DOMAIN map \ keys |-> map[k]]

\* ------------------------------------------------------------------ state
VARIABLES
    disk,              \* the text of each file on disk
    documents,         \* the open documents (TextDocuments)
    definitionMap,     \* the definitions index
    workspaceFolders,  \* the folders hasWorkspaceFolder answers TRUE for
    saves,             \* the onDidSave handlers in flight
    opens,             \* the onDidOpen handlers in flight
    tasks,             \* the updateFileDefinition calls a load has in flight
    nEvents,           \* editor events so far
    loadStarts,        \* per folder, the loads started
    loadedLog,         \* the "definitions have been loaded" log lines
    escaped,           \* the handlers that ended with a rejection
    lastUpdate,        \* the latest updateCandidates call
    loadRead,          \* per file, the text the latest load read for it
    definitionResult,  \* the latest go-to-definition answer
    documentSettings,  \* the documents the settings manager has settings cached for
    diagnostics,       \* the documents whose published diagnostics are not empty
    input,             \* the arguments of the call of a pure function
    output,            \* what the call returned
    changes,           \* the onDidChangeContent handlers in flight
    clients,           \* the extension's map from folder to language client
    defaultClient,     \* the extension's client for untitled documents
    folders,           \* the folders of the editor's workspace
    startedClients,    \* the language clients start() was called on
    stoppedClients,    \* the language clients stop() was called on
    deactivated        \* deactivate was called

\* The state the editor's client sees, and the call of a pure function.
client == << documentSettings, diagnostics >>
pure == << input, output >>

\* The state of the editor's extension.
extension == << clients, defaultClient, folders, startedClients, stoppedClients,
               deactivated >>

vars == << disk, documents, definitionMap, workspaceFolders, saves, opens, tasks,
           nEvents, loadStarts, loadedLog, escaped, lastUpdate,
           loadRead, definitionResult, documentSettings, diagnostics,
           input, output, changes, clients, defaultClient, folders,
           startedClients, stoppedClients, deactivated >>

NoCall == [function |-> undefined]

NoUpdate == [resource |-> undefined, text |-> undefined, by |-> undefined,
             again |-> FALSE, replaced |-> FALSE]
NoResult == [n |-> 0, uri |-> undefined, word |-> undefined, links |-> << >>]

\* The server right after construction.
Idle ==
    /\ disk \in {d \in [Files -> Texts \cup {Unreadable}] :
                   /\ d[A_t1] = SqlBroken
                   /\ d[A_t2] = SqlType
                   /\ d[A_f] = SqlOrdersFn
                   /\ d[B_t1] = SqlOrders
                   /\ d[B_t2] = Unreadable
                   /\ d[C_t1] = SqlOrders
                   /\ d[X_s] = SqlNothing}
    /\ documents = {}
    /\ definitionMap = << >>
    /\ workspaceFolders = {}
    /\ saves = {}
    /\ opens = {}
    /\ tasks = {}
    /\ nEvents = 0
    /\ loadStarts = [r \in Roots |-> 0]
    /\ loadedLog = {}
    /\ escaped = {}
    /\ lastUpdate = NoUpdate
    /\ loadRead = [f \in Files |-> undefined]
    /\ definitionResult = NoResult
    /\ documentSettings = {}
    /\ diagnostics = {}
    /\ changes = {}
    /\ clients = << >>
    /\ defaultClient = NoClient
    /\ folders = Roots
    /\ startedClients = {}
    /\ stoppedClients = {}
    /\ deactivated = FALSE

Init ==
    /\ Idle
    /\ input = NoCall
    /\ output = NoCall

\* The index after updateFileDefinition's parse of `text` has settled, and
\* the record of the updateCandidates call it made, if any.
Updated(resource, text) ==
    IF parseQuery(text).threw
    THEN definitionMap
    ELSE updateFileDefinition(definitionMap, resource, parseQuery(text))

Recorded(resource, text, by) ==
    IF parseQuery(text).threw \/ ~parseQuery(text).hasStmts
    THEN lastUpdate
    ELSE [resource |-> resource, text |-> text, by |-> by,
          again |-> lastUpdate.resource = resource /\ lastUpdate.text = text,
          replaced |-> /\ hasFileDefinitions(definitionMap, resource)
                       /\ fileCandidates(definitionMap, resource)
                            # createStmts(parseQuery(text).stmts, resource)]

\* ------------------------------------------------- loadDefinitionInWorkspace
\* A catch block that leaves the loop over the patterns.
catchError_break(root, i) == Len(definitionFiles(root)) + 1

\* The catch block: log the error and go on with the next pattern.
catchError(root, i) == i + 1

\* The loop over settings.definitionFiles from pattern i on, up to the next
\* await that does not settle at once.  Every matched file's
\* updateFileDefinition is started (the file is read, parseQuery is called);
\* Promise.all of no file resolves at once, and it rejects at once when a
\* file cannot be read.  The call of glob stands before the try block: when
\* it throws, the load rejects.  Yields the pattern the load now waits on
\* (past the last one when the load has returned), the calls left in flight
\* and whether the load has rejected.
RECURSIVE loadDefinitionInWorkspace(_, _, _, _)
loadDefinitionInWorkspace(root, opener, i, d) ==
    IF i > Len(definitionFiles(root))
    THEN [pattern |-> i, started |-> {}, threw |-> FALSE]
    ELSE IF globThrows(definitionFiles(root)[i])
    THEN [pattern |-> i, started |-> {}, threw |-> TRUE]
    ELSE LET files == glob(root, definitionFiles(root)[i])
             started == {[load |-> opener, pattern |-> i, resource |-> f, text |-> d[f]] :
                           f \in {g \in Range(files) : d[g] # Unreadable}}
             rejected == \E f \in Range(files) : d[f] = Unreadable
             next == IF rejected THEN catchError(root, i) ELSE i + 1
         IN IF rejected \/ files = << >>
            THEN LET rest == loadDefinitionInWorkspace(root, opener, next, d)
                 IN [pattern |-> rest.pattern, started |-> started \cup rest.started,
                     threw |-> rest.threw]
            ELSE [pattern |-> i, started |-> started, threw |-> FALSE]

\* The load of handler o goes on from pattern i, with `pending` in flight.
\* A load that rejects ends the handler with the rejection; one that returns
\* lets it log that the definitions are loaded.
LoadResume(o, i, pending) ==
    LET root == getWorkspaceFolder(o.uri)
        r == loadDefinitionInWorkspace(root, o.uri, i, disk)
        last == Len(definitionFiles(root))
        reached == IF r.pattern > last THEN last ELSE r.pattern
        read == UNION {Range(glob(root, definitionFiles(root)[j])) : j \in i..reached}
    IN /\ tasks' = pending \cup r.started
       /\ loadRead' = [f \in Files |-> IF f \in read THEN disk[f] ELSE loadRead[f]]
       /\ IF r.threw
          THEN /\ opens' = opens \ {o}
               /\ escaped' = escaped \cup {[handler |-> "onDidOpen", uri |-> o.uri]}
               /\ UNCHANGED loadedLog
          ELSE IF r.pattern > last
          THEN /\ opens' = opens \ {o}
               /\ loadedLog' = loadedLog \cup
                    {[root |-> root,
                      inflight |-> {t.resource : t \in {u \in tasks' : u.load = o.uri}}]}
               /\ UNCHANGED escaped
          ELSE /\ opens' = (opens \ {o}) \cup {[o EXCEPT !.pc = "loading", !.pattern = r.pattern]}
               /\ UNCHANGED << loadedLog, escaped >>

\* ------------------------------------------------------------- onDidOpen
OpenEvent(uri) ==
    /\ nEvents < MaxEvents
    /\ nEvents' = nEvents + 1
    /\ uri \notin documents
    /\ documents' = documents \cup {uri}
    /\ opens' = opens \cup {[uri |-> uri,
                             pc |-> "getWorkspaceFolder", pattern |-> 0]}
    /\ UNCHANGED << disk, definitionMap, workspaceFolders, saves, tasks,
                    loadStarts, loadedLog, escaped, lastUpdate, loadRead,
                    definitionResult >>
    /\ UNCHANGED << client, pure, changes, extension >>

\* getWorkspaceFolder has resolved: return without a folder or with a known
\* one, else ask for the settings.
OpenFolderResolved(o) ==
    /\ o.pc = "getWorkspaceFolder"
    /\ IF \/ getWorkspaceFolder(o.uri) = undefined
          \/ getWorkspaceFolder(o.uri) \in workspaceFolders
       THEN /\ opens' = opens \ {o}
            /\ UNCHANGED documentSettings
       ELSE /\ opens' = (opens \ {o}) \cup {[o EXCEPT !.pc = "settings"]}
            /\ documentSettings' = documentSettings \cup {o.uri}
    /\ UNCHANGED << disk, documents, definitionMap, workspaceFolders, saves, tasks,
                    nEvents, loadStarts, loadedLog, escaped,
                    lastUpdate, loadRead, definitionResult >>
    /\ UNCHANGED << diagnostics, pure, changes, extension >>

\* The settings have resolved: the load is called and runs to its first await.
OpenLoad(o) ==
    /\ o.pc = "settings"
    /\ workspaceFolders' = workspaceFolders \cup {getWorkspaceFolder(o.uri)}
    /\ loadStarts' = [loadStarts EXCEPT ![getWorkspaceFolder(o.uri)] = @ + 1]
    /\ LoadResume(o, 1, tasks)
    /\ UNCHANGED << disk, documents, definitionMap, saves, nEvents,
                    lastUpdate, definitionResult >>
    /\ UNCHANGED << client, pure, changes, extension >>

\* parseQuery of one file of a load settles.  The file's index entry is
\* replaced; when the load still awaits this pattern's Promise.all, a
\* rejection ends the await at once and the last fulfilment ends it too.
LoadFileParsed(t) ==
    LET pending == tasks \ {t}
        waiting == {o \in opens : o.uri = t.load /\ o.pc = "loading" /\ o.pattern = t.pattern}
        threw == parseQuery(t.text).threw
        others == {u \in pending : u.load = t.load /\ u.pattern = t.pattern}
    IN /\ definitionMap' = Updated(t.resource, t.text)
       /\ lastUpdate' = Recorded(t.resource, t.text, "onDidOpen")
       /\ IF waiting # {} /\ (threw \/ others = {})
          THEN LET o == CHOOSE w \in waiting : TRUE
               IN LoadResume(o, IF threw
                                THEN catchError(getWorkspaceFolder(o.uri), t.pattern)
                                ELSE t.pattern + 1,
                             pending)
          ELSE /\ tasks' = pending
               /\ UNCHANGED << opens, loadedLog, loadRead, escaped >>
       /\ UNCHANGED << disk, documents, workspaceFolders, saves, nEvents,
                       loadStarts, definitionResult >>
       /\ UNCHANGED << client, pure, changes, extension >>

\* ------------------------------------------------------------- onDidSave
\* The editor has written `text`; the handler reads it back, returns for a
\* disabled document and else awaits the validation.
SaveEvent(uri, text) ==
    /\ nEvents < MaxEvents
    /\ uri \in documents
    /\ nEvents' = nEvents + 1
    /\ disk' = [disk EXCEPT ![uri] = text]
    /\ IF disableLanguageServer(text)
       THEN UNCHANGED << saves, documentSettings >>
       ELSE /\ saves' = saves \cup {[n |-> nEvents + 1, uri |-> uri,
                                      textDocument |-> text, pc |-> "validate"]}
            /\ documentSettings' = documentSettings \cup {uri}
    /\ UNCHANGED << documents, definitionMap, workspaceFolders, opens, tasks,
                    loadStarts, loadedLog, escaped, lastUpdate, loadRead,
                    definitionResult >>
    /\ UNCHANGED << diagnostics, pure, changes, extension >>

\* A save that goes on to updateFileDefinitions whatever the file is.
SaveValidated_ungated(s) ==
    /\ s.pc = "validate"
    /\ diagnostics' = IF validateTextDocument(s.textDocument) = << >>
                      THEN diagnostics \ {s.uri}
                      ELSE diagnostics \cup {s.uri}
    /\ saves' = (saves \ {s}) \cup {[s EXCEPT !.pc = "parseQuery"]}
    /\ documentSettings' = documentSettings \cup {s.uri}
    /\ UNCHANGED << disk, documents, definitionMap, workspaceFolders, opens, tasks,
                    nEvents, loadStarts, loadedLog, escaped,
                    lastUpdate, loadRead, definitionResult >>
    /\ UNCHANGED << pure, changes, extension >>

\* validate has resolved and has sent the diagnostics.  A file with definitions, or one that is a
\* definition target, goes on to updateFileDefinitions and awaits its parse.
\* (The awaits of isDefinitionTarget and of the settings in between read and
\* write nothing another handler shares; they are part of this step.)
SaveValidated(s) ==
    /\ s.pc = "validate"
    /\ diagnostics' = IF validateTextDocument(s.textDocument) = << >>
                      THEN diagnostics \ {s.uri}
                      ELSE diagnostics \cup {s.uri}
    /\ IF hasFileDefinitions(definitionMap, s.uri) \/ isDefinitionTarget(s.uri)
       THEN /\ saves' = (saves \ {s}) \cup {[s EXCEPT !.pc = "parseQuery"]}
            /\ documentSettings' = documentSettings \cup {s.uri}
       ELSE /\ saves' = saves \ {s}
            /\ UNCHANGED documentSettings
    /\ UNCHANGED << disk, documents, definitionMap, workspaceFolders, opens, tasks,
                    nEvents, loadStarts, loadedLog, escaped,
                    lastUpdate, loadRead, definitionResult >>
    /\ UNCHANGED << pure, changes, extension >>

\* parseQuery has settled: a rejection leaves the update and the handler, a
\* query without stmts returns no candidates, any other replaces the entry.
SaveParsed(s) ==
    /\ s.pc = "parseQuery"
    /\ saves' = saves \ {s}
    /\ definitionMap' = Updated(s.uri, s.textDocument)
    /\ lastUpdate' = Recorded(s.uri, s.textDocument, "onDidSave")
    /\ escaped' = IF parseQuery(s.textDocument).threw
                  THEN escaped \cup {[handler |-> "onDidSave", uri |-> s.uri]}
                  ELSE escaped
    /\ UNCHANGED << disk, documents, workspaceFolders, opens, tasks, nEvents,
                    loadStarts, loadedLog, loadRead, definitionResult >>
    /\ UNCHANGED << client, pure, changes, extension >>

\* ----------------------------------------------------------- onDefinition
Definition(uri, word) ==
    /\ nEvents < MaxEvents
    /\ nEvents' = nEvents + 1
    /\ uri \in documents
    /\ ~disableLanguageServer(disk[uri])
    /\ definitionResult' =
         [n |-> nEvents + 1, uri |-> uri, word |-> word,
          links |-> getDefinitionLinks(definitionMap, documents, uri, word)]
    /\ UNCHANGED << disk, documents, definitionMap, workspaceFolders, saves, opens,
                    tasks, loadStarts, loadedLog, escaped, lastUpdate, loadRead >>
    /\ UNCHANGED << client, pure, changes, extension >>

\* ------------------------------------------------------ onDidChangeContent
\* The texts the editor changes a document to: one without an error, one
\* with one, and one that carries the marker that disables validation.
SqlNoValidation == "/* plpgsql-language-server:disable validation */ CREATE TABEL t"
ChangeTexts == {SqlOrders, SqlBroken, SqlNoValidation}

disableValidation(text) == text = SqlNoValidation

\* The document's content has changed: validate is called on the changed
\* document.  With validation disabled it sends the empty diagnostics at
\* once; otherwise it awaits the settings of the document.
ChangeEvent(uri, text) ==
    /\ nEvents < MaxEvents
    /\ nEvents' = nEvents + 1
    /\ uri \in documents
    /\ IF disableValidation(text)
       THEN /\ diagnostics' = diagnostics \ {uri}
            /\ UNCHANGED changes
       ELSE /\ changes' = changes \cup {[n |-> nEvents + 1, uri |-> uri,
                                          textDocument |-> text, pc |-> "settings"]}
            /\ UNCHANGED diagnostics
    /\ UNCHANGED << disk, documents, definitionMap, workspaceFolders, saves, opens,
                    tasks, loadStarts, loadedLog, escaped, lastUpdate, loadRead,
                    definitionResult, documentSettings, pure, extension >>

\* The settings have resolved (and are cached); validateTextDocument is
\* awaited.
ChangeSettings(c) ==
    /\ c.pc = "settings"
    /\ changes' = (changes \ {c}) \cup {[c EXCEPT !.pc = "validate"]}
    /\ documentSettings' = documentSettings \cup {c.uri}
    /\ UNCHANGED << disk, documents, definitionMap, workspaceFolders, saves, opens,
                    tasks, nEvents, loadStarts, loadedLog, escaped, lastUpdate,
                    loadRead, definitionResult, diagnostics, pure, extension >>

\* validateTextDocument has resolved: its diagnostics are sent.
ChangeValidated(c) ==
    /\ c.pc = "validate"
    /\ changes' = changes \ {c}
    /\ diagnostics' = IF validateTextDocument(c.textDocument) = << >>
                      THEN diagnostics \ {c.uri}
                      ELSE diagnostics \cup {c.uri}
    /\ UNCHANGED << disk, documents, definitionMap, workspaceFolders, saves, opens,
                    tasks, nEvents, loadStarts, loadedLog, escaped, lastUpdate,
                    loadRead, definitionResult, documentSettings, pure, extension >>

\* -------------------------------------------------------------- onDidClose
\* A close that also drops the index entry of the closed file.
CloseEvent_dropsEntry(uri) ==
    /\ nEvents < MaxEvents
    /\ nEvents' = nEvents + 1
    /\ uri \in documents
    /\ documents' = documents \ {uri}
    /\ documentSettings' = documentSettings \ {uri}
    /\ diagnostics' = diagnostics \ {uri}
    /\ definitionMap' = SelectSeq(definitionMap, LAMBDA entry : entry.resource # uri)
    /\ UNCHANGED << disk, workspaceFolders, saves, opens, tasks,
                    loadStarts, loadedLog, escaped, lastUpdate, loadRead,
                    definitionResult, pure, changes, extension >>

\* The document leaves the open documents; the handler deletes its settings
\* and sends an empty list of diagnostics for it.
CloseEvent(uri) ==
    /\ nEvents < MaxEvents
    /\ nEvents' = nEvents + 1
    /\ uri \in documents
    /\ documents' = documents \ {uri}
    /\ documentSettings' = documentSettings \ {uri}
    /\ diagnostics' = diagnostics \ {uri}
    /\ UNCHANGED << disk, definitionMap, workspaceFolders, saves, opens, tasks,
                    loadStarts, loadedLog, escaped, lastUpdate, loadRead,
                    definitionResult, pure, changes, extension >>

\* ---------------------------------------------------------- the extension
\* The frame of the extension's steps: the server's state.
server == << disk, documents, definitionMap, workspaceFolders, saves, opens, tasks,
            loadStarts, loadedLog, escaped, lastUpdate, loadRead,
            definitionResult, client, changes >>

\* The client the next createLanguageClient returns.
NewClient(workspaceFolder) ==
    LanguageClient(Cardinality(startedClients) + 1, workspaceFolder)

\* A didOpenTextDocument that does not ask whether the folder has a client.
didOpenTextDocument_always(document) ==
    LET folder == WorkspaceFolderOf(document, folders)
    IN /\ ~deactivated
       /\ nEvents < MaxEvents
       /\ nEvents' = nEvents + 1
       /\ input' = [function |-> "didOpenTextDocument", document |-> document]
       /\ IF \/ document.languageId # "postgres"
             \/ document.scheme \notin {"file", "untitled"}
          THEN UNCHANGED << clients, defaultClient, startedClients >>
          ELSE IF document.scheme = "untitled" /\ defaultClient = NoClient
          THEN /\ defaultClient' = NewClient(undefined)
               /\ startedClients' = startedClients \cup {NewClient(undefined)}
               /\ UNCHANGED clients
          ELSE IF folder = undefined
          THEN UNCHANGED << clients, defaultClient, startedClients >>
          ELSE /\ startedClients' = startedClients \cup {NewClient(folder)}
               /\ clients' = MapSet(clients, folder, NewClient(folder))
               /\ UNCHANGED defaultClient
       /\ UNCHANGED << folders, stoppedClients, deactivated, output, server >>

didOpenTextDocument(document) ==
    LET folder == WorkspaceFolderOf(document, folders)
    IN /\ ~deactivated
       /\ nEvents < MaxEvents
       /\ nEvents' = nEvents + 1
       /\ input' = [function |-> "didOpenTextDocument", document |-> document]
       /\ IF \/ document.languageId # "postgres"
             \/ document.scheme \notin {"file", "untitled"}
          THEN UNCHANGED << clients, defaultClient, startedClients >>
          ELSE IF document.scheme = "untitled" /\ defaultClient = NoClient
          THEN /\ defaultClient' = NewClient(undefined)
               /\ startedClients' = startedClients \cup {NewClient(undefined)}
               /\ UNCHANGED clients
          ELSE IF folder = undefined
          THEN UNCHANGED << clients, defaultClient, startedClients >>
          ELSE IF folder \notin DOMAIN clients
          THEN /\ startedClients' = startedClients \cup {NewClient(folder)}
               /\ clients' = MapSet(clients, folder, NewClient(folder))
               /\ UNCHANGED defaultClient
          ELSE UNCHANGED << clients, defaultClient, startedClients >>
       /\ UNCHANGED << folders, stoppedClients, deactivated, output, server >>

\* The workspace's folders have changed: the client of each removed folder
\* that has one is deleted from the map and stopped.
onDidChangeWorkspaceFolders(added, removed) ==
    /\ ~deactivated
    /\ nEvents < MaxEvents
    /\ nEvents' = nEvents + 1
    /\ added \cup removed # {}
    /\ folders' = (folders \ removed) \cup added
    /\ clients' = MapDelete(clients, removed)
    /\ stoppedClients' = stoppedClients
                            \cup {clients[f] : f \in removed \cap DOMAIN clients}
    /\ UNCHANGED << defaultClient, startedClients, deactivated, pure, server >>

\* deactivate stops the default client and every client of the map.
deactivate ==
    /\ ~deactivated
    /\ deactivated' = TRUE
    /\ stoppedClients' = stoppedClients
                            \cup (IF defaultClient = NoClient THEN {} ELSE {defaultClient})
                            \cup {clients[f] : f \in DOMAIN clients}
    /\ UNCHANGED << clients, defaultClient, folders, startedClients, nEvents,
                    pure, server >>

NextExtension ==
    \/ \E document \in TextDocuments : didOpenTextDocument(document)
    \/ \E added \in SUBSET (Roots \ folders), removed \in SUBSET folders :
          onDidChangeWorkspaceFolders(added, removed)
    \/ deactivate

SpecExtension == Init /\ [][NextExtension]_vars

\* ------------------------------------------------------------------ spec
Next ==
    \/ \E uri \in DocUris : OpenEvent(uri)
    \/ \E o \in opens : OpenFolderResolved(o)
    \/ \E o \in opens : OpenLoad(o)
    \/ \E t \in tasks : LoadFileParsed(t)
    \/ \E uri \in SaveUris : \E text \in SaveTexts(uri) : SaveEvent(uri, text)
    \/ \E s \in saves : SaveValidated(s)
    \/ \E s \in saves : SaveParsed(s)
    \/ \E uri \in DefinitionUris, word \in Words : Definition(uri, word)

Spec == Init /\ [][Next]_vars

\* ------------------------------------------------- the extraction, alone
\* updateFileDefinition from its parsed statements on: the extractors are
\* applied to a statement list and the file's entry is replaced.
StmtLists == UNION {[1..n -> StmtShapes] : n \in 0..MaxStmts}

InitExtract ==
    /\ Idle
    /\ input \in {[function |-> "updateFileDefinition", resource |-> A_t1, stmts |-> l] :
                     l \in StmtLists}
    /\ output = NoCall

Extract ==
    /\ input.function = "updateFileDefinition"
    /\ output = NoCall
    /\ output' = [function |-> input.function,
                  candidates |-> createStmts(input.stmts, input.resource)]
    /\ definitionMap' = updateFileDefinition(definitionMap, input.resource,
                                             Query(input.stmts))
    /\ UNCHANGED << disk, documents, workspaceFolders, saves, opens, tasks,
                    nEvents, loadStarts, loadedLog, escaped, lastUpdate,
                    loadRead, definitionResult, client, input,
                    changes, extension >>

NextExtract == Extract

SpecExtract == InitExtract /\ [][NextExtract]_vars

\* ------------------------------------------------------ the hover, alone
\* getHover on a word under the cursor, against a database.
InitHover ==
    /\ Idle
    /\ input \in {[function |-> "getHover", word |-> w, catalog |-> c] :
                     w \in HoverWords \cup {undefined}, c \in SUBSET Objects}
    /\ output = NoCall

Hover ==
    /\ input.function = "getHover"
    /\ output = NoCall
    /\ output' = [function |-> input.function,
                  hover |-> getHover(input.catalog, input.word).hover,
                  queries |-> getHover(input.catalog, input.word).queries]
    /\ UNCHANGED << disk, documents, definitionMap, workspaceFolders, saves, opens,
                    tasks, nEvents, loadStarts, loadedLog, escaped, lastUpdate,
                    loadRead, definitionResult, client, input,
                    changes, extension >>

NextHover == Hover

SpecHover == InitHover /\ [][NextHover]_vars

\* ------------------------------------------------ the loads, of any folder
\* Documents of every folder are opened, the folder with the pattern glob
\* does not accept among them, and nothing else happens.
LoadUris == DocUris \cup {C_t1}

NextLoad ==
    \/ \E uri \in LoadUris : OpenEvent(uri)
    \/ \E o \in opens : OpenFolderResolved(o)
    \/ \E o \in opens : OpenLoad(o)
    \/ \E t \in tasks : LoadFileParsed(t)

SpecLoad == Init /\ [][NextLoad]_vars

\* ------------------------------------------------ documents are closed too
NextClose ==
    \/ \E uri \in DocUris : OpenEvent(uri)
    \/ \E o \in opens : OpenFolderResolved(o)
    \/ \E o \in opens : OpenLoad(o)
    \/ \E t \in tasks : LoadFileParsed(t)
    \/ \E uri \in SaveUris : \E text \in SaveTexts(uri) : SaveEvent(uri, text)
    \/ \E s \in saves : SaveValidated(s)
    \/ \E s \in saves : SaveParsed(s)
    \/ \E uri \in DocUris : CloseEvent(uri)

SpecClose == Init /\ [][NextClose]_vars

\* ------------------------------------------- documents are changed, closed
NextChange ==
    \/ \E uri \in DocUris : OpenEvent(uri)
    \/ \E o \in opens : OpenFolderResolved(o)
    \/ \E o \in opens : OpenLoad(o)
    \/ \E t \in tasks : LoadFileParsed(t)
    \/ \E uri \in DocUris : \E text \in ChangeTexts : ChangeEvent(uri, text)
    \/ \E c \in changes : ChangeSettings(c)
    \/ \E c \in changes : ChangeValidated(c)
    \/ \E uri \in DocUris : CloseEvent(uri)

SpecChange == Init /\ [][NextChange]_vars

\* ------------------------------------------------------------------ claims
\* The candidates the file's text on disk yields, when it yields any.
Indexable(text) ==
    ~disableLanguageServer(text) /\ parseQuery(text).hasStmts

\* C1: once every save handler of a file has completed, and a save was the
\* last to write the index entry of the file, the entry holds the candidates
\* of the text saved last (the text on disk).
C1_LatestSaveWins ==
    \A f \in SaveUris :
        ( /\ ~\E s \in saves : s.uri = f
          /\ lastUpdate.resource = f
          /\ lastUpdate.by = "onDidSave"
          /\ Indexable(disk[f]) )
        => fileCandidates(definitionMap, f) = createStmts(parseQuery(disk[f]).stmts, f)

\* The candidates lookup draws on that point into the file, in its order.
Attributed(map, f) ==
    SelectSeq(allCandidates(map), LAMBDA c : c.definitionLink.targetUri = f)

\* C2: the declarations lookup returns for a file all come from one parse of
\* the file, and after an update of the file they are those of the new text.
C2_AtomicReplace ==
    /\ \A f \in Files :
         LET found == Attributed(definitionMap, f)
         IN IF hasFileDefinitions(definitionMap, f)
            THEN \E text \in Texts :
                   /\ parseQuery(text).hasStmts
                   /\ found = createStmts(parseQuery(text).stmts, f)
            ELSE found = << >>
    /\ lastUpdate.resource # undefined
         => Attributed(definitionMap, lastUpdate.resource)
              = createStmts(parseQuery(lastUpdate.text).stmts, lastUpdate.resource)

\* An update has replaced an entry that held other declarations.
C2_Witness == lastUpdate.replaced

\* A save handler's updateFileDefinitions settles in this step.
SaveSettles(s) == s \in saves /\ s.pc = "parseQuery" /\ s \notin saves'

\* C3: when the text of a saved file cannot be parsed, the update leaves the
\* index as it was and nothing is thrown to the save handler.
C3_ParseFailureKeepsEntry ==
    [][\A s \in saves :
         (SaveSettles(s) /\ parseQuery(s.textDocument).threw)
         => (definitionMap' = definitionMap /\ escaped' = escaped)]_vars

\* C4: once a folder's load has returned and none of its calls is in flight,
\* every matched file the load could read and parse has its declarations in
\* the index, failing files of the same or of earlier patterns or not, and
\* the load raised nothing.
C4_PartialFailureLoad ==
    /\ \A e \in escaped : e.handler # "onDidOpen"
    /\ \A r \in Roots :
         ( /\ \E l \in loadedLog : l.root = r
           /\ \A o \in opens : getWorkspaceFolder(o.uri) # r
           /\ \A t \in tasks : getWorkspaceFolder(t.resource) # r )
         => \A f \in MatchedFiles(r) :
              /\ loadRead[f] # undefined
              /\ (loadRead[f] # Unreadable /\ parseQuery(loadRead[f]).hasStmts)
                 => /\ hasFileDefinitions(definitionMap, f)
                    /\ f \notin SaveUris
                         => fileCandidates(definitionMap, f)
                              = createStmts(parseQuery(loadRead[f]).stmts, f)

\* Folder A is loaded: its first file failed, the file beside it and the
\* file of the last pattern are indexed.
C4_Witness ==
    /\ \E l \in loadedLog : l.root = RootA
    /\ opens = {}
    /\ tasks = {}
    /\ parseQuery(loadRead[A_t1]).threw
    /\ hasFileDefinitions(definitionMap, A_t2)
    /\ hasFileDefinitions(definitionMap, A_f)

\* C5: the load of a folder is started at most once.
C5_LoadStartedOnce ==
    \A r \in Roots : loadStarts[r] <= 1

\* C6: when the load has returned and "loaded" is logged, no file of the
\* load is still being indexed.
C6_LoadedMeansAttempted ==
    \A l \in loadedLog : l.inflight = {}

\* C7: a definition request of a document never gets a location in a file
\* of another workspace folder.
C7_NoCrossRootLeak ==
    \A i \in DOMAIN definitionResult.links :
        getWorkspaceFolder(definitionResult.links[i].targetUri)
            = getWorkspaceFolder(definitionResult.uri)

\* A load's updateFileDefinition settles in this step.
TaskSettles(t) == t \in tasks /\ t \notin tasks'

\* The update just before was of this file with this text.
Repeats(resource, text) ==
    /\ parseQuery(text).hasStmts
    /\ lastUpdate.resource = resource
    /\ lastUpdate.text = text

\* C8: an update of a file with the text of the update just before it, of
\* the same file, leaves the index as it is.
C8_IdempotentReplace ==
    [][/\ \A s \in saves :
            (SaveSettles(s) /\ Repeats(s.uri, s.textDocument))
            => definitionMap' = definitionMap
       /\ \A t \in tasks :
            (TaskSettles(t) /\ Repeats(t.resource, t.text))
            => definitionMap' = definitionMap]_vars

\* The same update has been made twice in a row.
C8_Witness == lastUpdate.again

\* C9: a save of a file whose folder no load was started for leaves the
\* index as it is.
C9_UnloadedNotIndexed ==
    [][\A s \in saves :
         (SaveSettles(s) /\ getWorkspaceFolder(s.uri) \notin workspaceFolders)
         => definitionMap' = definitionMap]_vars

\* C10: with default schema public, a request on the word orders, with a
\* declaration of public.orders and none of orders in the index, is answered
\* with the locations of public.orders.
C10_SchemaFallback ==
    [][( /\ definitionResult'.n = nEvents'
         /\ nEvents' = nEvents + 1
         /\ definitionResult'.word = "orders"
         /\ defaultSchema = "public"
         /\ lookup(definitionMap, "public.orders") # << >>
         /\ lookup(definitionMap, "orders") = << >> )
       => definitionResult'.links = lookup(definitionMap, "public.orders")]_vars

\* The links of the first form, in order, that lookup finds something for.
RECURSIVE firstHit(_, _)
firstHit(map, forms) ==
    IF forms = << >>
    THEN << >>
    ELSE IF lookup(map, Head(forms)) # << >>
         THEN lookup(map, Head(forms))
         ELSE firstHit(map, Tail(forms))

\* C11: a definition request is answered with the links of the first
\* candidate form of its word, in generator order, that lookup finds
\* something for, and with no link when lookup finds nothing for any form.
C11_FirstHitWins ==
    [][( /\ definitionResult'.n = nEvents'
         /\ nEvents' = nEvents + 1 )
       => definitionResult'.links
            = firstHit(definitionMap, candidateForms(definitionResult'.word))]_vars

\* The extraction has been made.
Extracted == output # NoCall /\ output.function = "updateFileDefinition"

\* The candidates of that name among the extracted ones.
Named(name) ==
    SelectSeq(output.candidates, LAMBDA c : c.definition = name)

\* The positions of the statement list that hold such a statement.
Holding(stmt) == {i \in DOMAIN input.stmts : input.stmts[i] = stmt}

\* The name a table, view or composite type is declared under.
RelationName(stmt) ==
    IF stmt.schemaname = undefined
    THEN stmt.relname
    ELSE stmt.schemaname \o "." \o stmt.relname

Relations ==
    {stmt \in StmtShapes :
        /\ stmt.kind \in {"CreateStmt", "ViewStmt", "CompositeTypeStmt"}
        /\ stmt.relname # undefined}

\* C12: every table, view or composite-type statement of the file yields one
\* declaration: under schema.name when it names a schema, under its bare
\* name when it names none.
C12_OneDeclarationPerRelation ==
    Extracted =>
        \A stmt \in Relations :
            Len(Named(RelationName(stmt))) = Cardinality(Holding(stmt))

\* The function statements, and the string components of a name list.
Functions == {stmt \in StmtShapes : stmt.kind = "CreateFunctionStmt"}

Components(stmt) ==
    {i \in DOMAIN stmt.funcname : stmt.funcname[i] # undefined}

\* The times a name is a component of a function statement of the file.
Declaring(name) ==
    {<< i, j >> \in (DOMAIN input.stmts) \X (1..2) :
        /\ input.stmts[i] \in Functions
        /\ j \in Components(input.stmts[i])
        /\ input.stmts[i].funcname[j] = name}

\* C13: a function statement yields one declaration per string component of
\* its name list, and after the file is indexed lookup of each component,
\* the bare function name among them, returns the file's location.
C13_FunctionNameComponents ==
    Extracted =>
        \A name \in {"f", "public"} :
            /\ Len(Named(name)) = Cardinality(Declaring(name))
            /\ Len(lookup(definitionMap, name)) = Cardinality(Declaring(name))
            /\ \A i \in DOMAIN lookup(definitionMap, name) :
                   lookup(definitionMap, name)[i].targetUri = input.resource

\* A file with CREATE FUNCTION public.f is indexed and f is found.
C13_Witness ==
    /\ Extracted
    /\ Holding(CreateFunctionStmt(<< "public", "f" >>)) # {}
    /\ lookup(definitionMap, "f") # << >>

\* C14: a trigger or index statement yields one declaration under its bare
\* name, and after the file is indexed lookup of the name returns the file.
C14_TriggerAndIndexNames ==
    Extracted =>
        /\ Len(Named("trg")) = Cardinality(Holding(CreateTrigStmt("trg", "orders", << "f" >>)))
        /\ Len(Named("idx")) = Cardinality(Holding(IndexStmt("idx")))
        /\ Len(lookup(definitionMap, "idx")) = Cardinality(Holding(IndexStmt("idx")))

\* A statement no extractor reads a name from: of an unrecognized kind, or
\* without the expected field.
Shapeless(stmt) ==
    \/ stmt.kind \notin {"CreateStmt", "CompositeTypeStmt", "CreateFunctionStmt"}
    \/ stmt.kind # "CreateFunctionStmt" /\ stmt.relname = undefined
    \/ stmt.kind = "CreateFunctionStmt" /\ Components(stmt) = {}

\* C15: the statements without the expected shape yield nothing and take
\* nothing away: the declarations are those of the list without them.
C15_ShapelessSkipped ==
    Extracted =>
        output.candidates
            = createStmts(SelectSeq(input.stmts, LAMBDA stmt : ~Shapeless(stmt)),
                          input.resource)

\* A shapeless statement stood before one that yields a declaration.
C15_Witness ==
    /\ Extracted
    /\ Len(input.stmts) = 2
    /\ Shapeless(input.stmts[1])
    /\ output.candidates # << >>

\* The load of the folder has been called and has returned or rejected, and
\* none of its calls is in flight.
LoadOver(r) ==
    /\ loadStarts[r] > 0
    /\ \A o \in opens : getWorkspaceFolder(o.uri) # r
    /\ \A t \in tasks : getWorkspaceFolder(t.resource) # r

\* C16: a pattern that glob does not accept, or that matches no file, is
\* skipped: the load raises nothing, and once it is over the files of the
\* folder's other patterns that can be read and parsed are in the index.
C16_GlobFailurePerPattern ==
    /\ \A e \in escaped : e.handler # "onDidOpen"
    /\ \A r \in Roots :
         LoadOver(r) =>
            \A f \in MatchedFiles(r) :
                (disk[f] # Unreadable /\ parseQuery(disk[f]).hasStmts)
                => hasFileDefinitions(definitionMap, f)

\* The documents closed in this step.
Closed == documents \ documents'

\* C17: a close leaves the index, with the closed file's entry, and the
\* loaded folders as they are; of the rest only the closed document's
\* settings and diagnostics go.
C17_CloseKeepsEntry ==
    [][Closed # {} =>
         /\ definitionMap' = definitionMap
         /\ workspaceFolders' = workspaceFolders
         /\ documentSettings' = documentSettings \ Closed
         /\ diagnostics' = diagnostics \ Closed
         /\ UNCHANGED << disk, saves, opens, tasks, loadStarts, loadedLog,
                         escaped, lastUpdate, loadRead >>]_vars

\* A document was opened, saved and indexed, and is closed; its entry is in
\* the index.
C17_Witness ==
    \E f \in SaveUris :
        /\ f \notin documents
        /\ lastUpdate.resource = f
        /\ lastUpdate.by = "onDidSave"
        /\ hasFileDefinitions(definitionMap, f)

\* The files of a folder in the order its load processes them.
ProcessingOrder(root) ==
    LET f(filePattern) == glob(root, filePattern)
    IN flatMap(definitionFiles(root), f)

Position(seq, x) == CHOOSE i \in DOMAIN seq : seq[i] = x

\* Only loads have written the index: every event so far is an open or a
\* save whose handler still awaits the validation.
LoadsOnly ==
    nEvents = Cardinality(documents) + Cardinality({s \in saves : s.pc = "validate"})

\* C18: the locations lookup returns for a name stand in the order in which
\* the load processes their files, whichever parse finishes first.
C18_FileProcessingOrder ==
    LoadsOnly =>
        \A r \in Roots :
            LET found == allCandidates(definitionMap)
            IN \A i, j \in DOMAIN found :
                 ( /\ i < j
                   /\ found[i].definition = found[j].definition
                   /\ getWorkspaceFolder(found[i].definitionLink.targetUri) = r
                   /\ getWorkspaceFolder(found[j].definitionLink.targetUri) = r )
                 => Position(ProcessingOrder(r), found[i].definitionLink.targetUri)
                      <= Position(ProcessingOrder(r), found[j].definitionLink.targetUri)

\* getHover has returned.
Hovered == output # NoCall /\ output.function = "getHover"

\* The database holds an object of that name in the default schema.
Holds(name) ==
    \E o \in input.catalog : o.schema = defaultSchema /\ o.name = name

SaveEnds(s) == s \in saves /\ \A t \in saves' : t.n # s.n

\* The file is saved with a text that carries the disable marker.
SavedDisabled(uri) ==
    /\ nEvents' = nEvents + 1
    /\ disk'[uri] # disk[uri]
    /\ disableLanguageServer(disk'[uri])

\* C20: a save handler that ends having changed the index is one of a file
\* that has indexed definitions or is a definition target, and of a text
\* without the disable marker; a save of a text with the marker starts no
\* handler and changes no index.
C20_SaveGating ==
    [][/\ \A s \in saves :
            (SaveEnds(s) /\ definitionMap' # definitionMap)
            => /\ hasFileDefinitions(definitionMap, s.uri) \/ isDefinitionTarget(s.uri)
               /\ ~disableLanguageServer(s.textDocument)
       /\ \A uri \in SaveUris :
            (SavedDisabled(uri) /\ disk' # disk)
            => (saves' = saves /\ definitionMap' = definitionMap)]_vars

\* A definition target was saved with a table in it and its handler has
\* indexed it; it was then saved with the marker, and the index still holds
\* the table.
C20_Witness ==
    /\ disk[A_t1] = SqlDisabled
    /\ saves = {}
    /\ lastUpdate.by = "onDidSave"
    /\ lastUpdate.resource = A_t1
    /\ fileCandidates(definitionMap, A_t1)
         = createStmts(parseQuery(SqlOrders).stmts, A_t1)

\* The candidate forms of the word whose schema separation is defined, and
\* the queries of table, view, function and type for each of them, numbered
\* in the order of the forms and, within a form, of the kinds.
Separable ==
    IF input.word = undefined
    THEN << >>
    ELSE SelectSeq(sanitizeWordCandidates(input.word),
                   LAMBDA form : separateSchemaFromCandidate(form).separated)

Slots == 1..(Len(Separable) * Len(HoverKinds))

SlotForm(i) == separateSchemaFromCandidate(Separable[((i - 1) \div Len(HoverKinds)) + 1])

SlotKind(i) == HoverKinds[((i - 1) % Len(HoverKinds)) + 1]

SlotQuery(i) == DefinitionsQuery(SlotKind(i), SlotForm(i).schema, SlotForm(i).candidate)

SlotAnswer(i) ==
    queryDefinitions(input.catalog, SlotKind(i), SlotForm(i).schema, SlotForm(i).candidate)

Hits == {i \in Slots : SlotAnswer(i) # {}}

FirstHit == CHOOSE i \in Hits : \A j \in Hits : i <= j

\* C21: getHover sends the queries of the separable forms in order, kind by
\* kind, up to and including the first that has an answer, and returns that
\* answer's hover; with no word or no answer it returns no hover, having
\* sent every query.
C21_HoverPrecedence ==
    Hovered =>
        IF Hits = {}
        THEN /\ ~output.hover.found
             /\ output.queries = [i \in Slots |-> SlotQuery(i)]
        ELSE /\ output.hover = makeHover(SlotAnswer(FirstHit))
             /\ output.queries = [i \in 1..FirstHit |-> SlotQuery(i)]

\* The word Users: the four kinds were asked for Users in vain, the table
\* users answered the fifth query, and the view users was not asked for.
C21_Witness ==
    /\ Hovered
    /\ input.word = "Users"
    /\ Object("view", "public", "users") \in input.catalog
    /\ Len(output.queries) = 5
    /\ output.hover.contents = {Object("table", "public", "users")}

\* The document is closed and no handler started for it is in flight.
ClosedAndQuiet(uri) ==
    /\ uri \notin documents
    /\ \A c \in changes : c.uri # uri
    /\ \A s \in saves : s.uri # uri
    /\ \A o \in opens : o.uri # uri

\* C22: the diagnostics last published for a closed document none of whose
\* handlers is in flight are the empty list.
C22_ClosedMeansCleared ==
    \A uri \in DocUris : ClosedAndQuiet(uri) => uri \notin diagnostics

\* The clients that were started and not stopped.
Running == startedClients \ stoppedClients

\* The document is one the extension serves.
Served(document) ==
    /\ document.languageId = "postgres"
    /\ document.scheme \in {"file", "untitled"}

\* This step is the opening of the document input' holds (a change of the
\* workspace's folders changes folders).
Opened ==
    /\ nEvents' = nEvents + 1
    /\ folders' = folders
    /\ input'.function = "didOpenTextDocument"

\* The registry of clients, while the extension is active.
Registry ==
    ~deactivated =>
        /\ \A f \in DOMAIN clients :
             /\ clients[f] \in Running
             /\ clients[f].workspaceFolder = f
        /\ \A c \in Running :
             c.workspaceFolder # undefined
             => /\ c.workspaceFolder \in DOMAIN clients
                /\ clients[c.workspaceFolder] = c
        /\ \A f \in Roots \ folders : f \notin DOMAIN clients
        /\ Cardinality({c \in startedClients : c.workspaceFolder = undefined}) <= 1
        /\ defaultClient # NoClient => defaultClient \in Running

\* C23: while the extension is active every client of the map is the one
\* running client of its folder, a folder that was removed has no client in
\* the map and none running, at most one default client was ever created,
\* and the opening of a document that is not postgres with scheme file or
\* untitled creates no client.
C23_ClientRegistry ==
    /\ []Registry
    /\ [][(Opened /\ ~Served(input'.document))
          => UNCHANGED << clients, defaultClient, startedClients >>]_vars

\* Folder A's client was created and, the folder having been removed, was
\* stopped; the default client is running.
C23_Witness ==
    /\ ~deactivated
    /\ RootA \notin folders
    /\ \E c \in stoppedClients : c.workspaceFolder = RootA
    /\ defaultClient \in Running

====
